---- MODULE Spec2Model ----
(***************************************************************************)
(* Job queue (storage/db + scheduler/queue), the scheduler skill CLI and   *)
(* the cron dispatch loop (scheduler/cron) of the social media relay.      *)
(*                                                                         *)
(* Time is counted in whole slots; DayLen slots make one UTC day.  A       *)
(* timestamp is kept the way the code stores it: as text.  Text is a       *)
(* sequence of fields compared field by field, the way SQLite compares     *)
(* two TEXT values byte by byte: <<day, separator, time of day>>.          *)
(***************************************************************************)
EXTENDS Integers, Sequences, FiniteSets, TLC

\* ------------------------------------------------------------------ bounds
MaxJobs == 2        \* rows ever inserted into posts
MaxTime == 3        \* last clock slot
DayLen == 2         \* clock slots per UTC day
MaxPasses == 2      \* processJobs() calls that can be in flight together
MaxDays == 1        \* largest days argument given to cleanup
MaxOverlapJobs == 1 \* rows inserted up to which overlapping passes are explored
Hour == 1           \* clock slots that stand for one hour
MaxQueueJobs == 1   \* rows inserted when the queue is driven through its API
MaxFails == 3       \* failJob calls on one row when the queue is driven so
MaxExpiresIn == 2   \* largest expires_in a provider answers with, in clock slots
MaxStates == 2      \* handshakes begun
MaxRefreshes == 1   \* getValidToken calls awaiting refreshFn at once

\* --------------------------------------------------------------- constants
READY_RETRY_LIMIT == 3      \* the literal in getPendingJobs' WHERE clause
DEFAULT_MAX_RETRIES == 3    \* MAX_RETRIES when the environment sets none
CharT == 84                 \* 'T', the date/time separator of toISOString()
CharSpace == 32             \* ' ', the date/time separator of datetime()
REFRESH_BUFFER_MS == 2      \* the 5 minute refresh buffer, in clock slots
STATE_TTL_MS == 2           \* the 10 minutes a handshake session is kept, in
                            \* clock slots of the OAuth server

VARIABLES
    posts,          \* the posts table: id -> row
    nextId,         \* AUTOINCREMENT: the id the next INSERT gets
    now,            \* the wall clock
    MAX_RETRIES,    \* the scheduler's configured retry ceiling
    phase,          \* the scheduler process: "boot", "startup", "running"
    pass,           \* the processJobs() calls: slot -> frame
    tokens,         \* the tokens table: platform -> row
    oauthStates,    \* the OAuth server's session map: state token -> OAuthState
    timers,         \* its pending setTimeout calls: state token -> time due
    nextState,      \* the state tokens issued so far are 1..nextState - 1
    exchanges,      \* callbacks awaiting the token endpoint: state token -> request
    refreshes       \* getValidToken calls awaiting refreshFn: platform -> token read

vars == <<posts, nextId, now, MAX_RETRIES, phase, pass, tokens,
          oauthStates, timers, nextState, exchanges, refreshes>>

\* the state of the job queue and its scheduler, and that of the credentials
queueVars == <<posts, nextId, MAX_RETRIES, phase, pass>>
oauthVars == <<oauthStates, timers, nextState, exchanges>>
authVars == <<tokens, oauthVars, refreshes>>

NULL == <<>>

\* ---------------------------------------------------------------- messages
MsgMaxRetries == <<"Max retries exceeded">>
MsgCancelled == <<"Cancelled by user">>
MsgUnknown == <<"Unknown error">>
AuthPrefix == "Authentication required: "

\* ------------------------------------------------------------- time as text
\* Date.prototype.toISOString(): "YYYY-MM-DDTHH:MM:SS.mmmZ"
toISOString(t) == <<t \div DayLen, CharT, t % DayLen>>

\* SQLite datetime(...) and CURRENT_TIMESTAMP: "YYYY-MM-DD HH:MM:SS"
datetime(t) == <<t \div DayLen, CharSpace, t % DayLen>>

\* new Date(text): the instant a stored timestamp denotes
parseDate(s) == s[1] * DayLen + s[3]

\* SQLite's comparison of two TEXT values (memcmp, then the shorter first)
RECURSIVE TextLess(_, _)
TextLess(a, b) ==
    IF b = <<>> THEN FALSE
    ELSE IF a = <<>> THEN TRUE
    ELSE IF Head(a) < Head(b) THEN TRUE
    ELSE IF Head(a) > Head(b) THEN FALSE
    ELSE TextLess(Tail(a), Tail(b))

TextLeq(a, b) == a = b \/ TextLess(a, b)

\* ------------------------------------------------------------ the posts table
Ids == DOMAIN posts

\* the INSERT as it would be if a new row were given a used-up retry
addPost_CountsFirstTry(P, id, scheduledAt, t) ==
    [i \in (DOMAIN P) \cup {id} |->
        IF i = id
        THEN [status |-> "pending",
              scheduled_at |-> IF scheduledAt = NULL THEN NULL
                               ELSE toISOString(scheduledAt[1]),
              result_json |-> NULL,
              error_message |-> NULL,
              retry_count |-> 1,
              created_at |-> datetime(t)]
        ELSE P[i]]

\* INSERT INTO posts (...) VALUES (?, ?, 'pending', ?, ?, ?)
addPost(P, id, scheduledAt, t) ==
    [i \in (DOMAIN P) \cup {id} |->
        IF i = id
        THEN [status |-> "pending",
              scheduled_at |-> IF scheduledAt = NULL THEN NULL
                               ELSE toISOString(scheduledAt[1]),
              result_json |-> NULL,
              error_message |-> NULL,
              retry_count |-> 0,
              created_at |-> datetime(t)]
        ELSE P[i]]

\* the WHERE clause as it would be with the retry limit off by one
IsReady_LimitInclusive(row, t) ==
    /\ row.status = "pending"
    /\ (row.scheduled_at = NULL \/ TextLeq(row.scheduled_at, datetime(t)))
    /\ row.retry_count <= READY_RETRY_LIMIT

\* the WHERE clause of getPendingJobs
IsReady(row, t) ==
    /\ row.status = "pending"
    /\ (row.scheduled_at = NULL \/ TextLeq(row.scheduled_at, datetime(t)))
    /\ row.retry_count < READY_RETRY_LIMIT

ReadyIds(P, t) == {i \in DOMAIN P : IsReady(P[i], t)}

\* ORDER BY scheduled_at ASC, created_at ASC (NULL sorts first)
OrderedBefore(a, b) ==
    \/ TextLess(a.scheduled_at, b.scheduled_at)
    \/ a.scheduled_at = b.scheduled_at /\ TextLeq(a.created_at, b.created_at)

\* rowToJob: the fields of a row that processJobs reads
rowToJob(P, i) == [id |-> i, retryCount |-> P[i].retry_count]

\* every list getPendingJobs may return: rows that tie come in any order
getPendingJobs(P, t) ==
    LET S == ReadyIds(P, t)
        n == Cardinality(S)
    IN {[k \in 1..n |-> rowToJob(P, f[k])] :
          f \in {g \in [1..n -> S] :
                    /\ \A x, y \in 1..n : x # y => g[x] # g[y]
                    /\ \A x, y \in 1..n : x < y => OrderedBefore(P[g[x]], P[g[y]])}}

getReadyJobs(P, t) == getPendingJobs(P, t)

\* the UPDATE as it would be if completing also reset the retry counter
markComplete_ResetsRetries(P, id, resultJson) ==
    IF id \in DOMAIN P
    THEN [P EXCEPT ![id].status = "completed", ![id].result_json = resultJson,
                   ![id].retry_count = 0]
    ELSE P

\* UPDATE posts SET status = 'completed', result_json = ? WHERE id = ?
markComplete(P, id, resultJson) ==
    IF id \in DOMAIN P
    THEN [P EXCEPT ![id].status = "completed", ![id].result_json = resultJson]
    ELSE P

\* the UPDATE as it would be if it left a completed row completed
markFailed_KeepsCompleted(P, id, errorMessage) ==
    IF id \in DOMAIN P
    THEN [P EXCEPT ![id].status = IF @ = "completed" THEN @ ELSE "failed",
                   ![id].error_message = errorMessage,
                   ![id].retry_count = @ + 1]
    ELSE P

\* UPDATE posts SET status = 'failed', error_message = ?,
\*                  retry_count = retry_count + 1 WHERE id = ?
markFailed(P, id, errorMessage) ==
    IF id \in DOMAIN P
    THEN [P EXCEPT ![id].status = "failed",
                   ![id].error_message = errorMessage,
                   ![id].retry_count = @ + 1]
    ELSE P

\* the statement as it would be if cancelling removed the row
cancelJob_Deletes(P, id) ==
    IF id \in DOMAIN P /\ P[id].status = "pending"
    THEN [posts |-> [i \in (DOMAIN P) \ {id} |-> P[i]], changed |-> TRUE]
    ELSE [posts |-> P, changed |-> FALSE]

\* UPDATE ... SET status = 'failed', error_message = 'Cancelled by user'
\*        WHERE id = ? AND status = 'pending'
cancelJob(P, id) ==
    IF id \in DOMAIN P /\ P[id].status = "pending"
    THEN [posts |-> [P EXCEPT ![id].status = "failed",
                              ![id].error_message = MsgCancelled],
          changed |-> TRUE]
    ELSE [posts |-> P, changed |-> FALSE]

\* the UPDATE as it would be if it took every row that is not pending
retryJob_AnyStatus(P, id) ==
    IF id \in DOMAIN P /\ P[id].status # "pending"
    THEN [posts |-> [P EXCEPT ![id].status = "pending",
                              ![id].error_message = NULL],
          changed |-> TRUE]
    ELSE [posts |-> P, changed |-> FALSE]

\* UPDATE ... SET status = 'pending', error_message = NULL
\*        WHERE id = ? AND status = 'failed'
retryJob(P, id) ==
    IF id \in DOMAIN P /\ P[id].status = "failed"
    THEN [posts |-> [P EXCEPT ![id].status = "pending",
                              ![id].error_message = NULL],
          changed |-> TRUE]
    ELSE [posts |-> P, changed |-> FALSE]

\* the DELETE as it would be without its status condition
deleteOldPosts_AnyStatus(P, days, t) ==
    LET gone == {i \in DOMAIN P :
                    TextLess(P[i].created_at, datetime(t - days * DayLen))}
    IN [posts |-> [i \in (DOMAIN P) \ gone |-> P[i]],
        changes |-> Cardinality(gone)]

\* DELETE FROM posts WHERE created_at < datetime('now', '-N days')
\*                     AND status IN ('completed', 'failed')
deleteOldPosts(P, days, t) ==
    LET gone == {i \in DOMAIN P :
                    /\ TextLess(P[i].created_at, datetime(t - days * DayLen))
                    /\ P[i].status \in {"completed", "failed"}}
    IN [posts |-> [i \in (DOMAIN P) \ gone |-> P[i]],
        changes |-> Cardinality(gone)]

\* ------------------------------------------------------------------ queue.ts
completeJob(P, id, result) == markComplete(P, id, <<result>>)
failJob(P, id, error) == markFailed(P, id, error)

\* ------------------------------------------------------- the platform skills
\* what a platform function hands to the skill's main()
SkillSuccess == [success |-> TRUE, needsAuth |-> FALSE, error |-> NULL]
SkillNeedsAuth == [success |-> FALSE, needsAuth |-> TRUE,
                   error |-> <<"authentication required. Run /auth">>]
SkillFailure == [success |-> FALSE, needsAuth |-> FALSE, error |-> <<"upload failed">>]
SkillResults == {SkillSuccess, SkillNeedsAuth, SkillFailure}

StderrTexts == {NULL, <<"stderr text">>}

\* main() of a skill: console.log(JSON.stringify(result));
\*                    process.exit(result.success ? 0 : 1)
SkillMain(result, stderr) ==
    [threw |-> FALSE,
     exitCode |-> IF result.success THEN 0 ELSE 1,
     stdout |-> <<result>>,
     stderr |-> stderr]

\* spawn() itself failing: executeSkill rejects with that error
SpawnError == [threw |-> TRUE, exitCode |-> 0, stdout |-> NULL,
               stderr |-> <<"spawn failed">>]

\* everything the awaited executeSkill() can settle with
ProcOutcomes ==
    {SkillMain(r, e) : r \in SkillResults, e \in StderrTexts} \cup {SpawnError}

ExitCodeText(c) == IF c = 0 THEN "0" ELSE "1"

\* ------------------------------------------------------------------- cron.ts
\* executeSkill, from the exit of the child on: the SkillResult it returns
executeSkill(proc) ==
    IF proc.exitCode # 0
    THEN [success |-> FALSE, needsAuth |-> FALSE,
          error |-> IF proc.stderr # NULL THEN proc.stderr
                    ELSE <<"Skill exited with code ", ExitCodeText(proc.exitCode)>>]
    ELSE IF Len(proc.stdout) = 1
    THEN proc.stdout[1]
    ELSE [success |-> FALSE, needsAuth |-> FALSE,
          error |-> <<"Invalid JSON output: ">> \o proc.stdout]

\* the try/catch as it would be if a throw were swallowed without a fail
HandleResult_ThrowDropped(P, job, proc) ==
    IF proc.threw
    THEN P
    ELSE LET result == executeSkill(proc) IN
         IF result.success
         THEN completeJob(P, job.id, result)
         ELSE failJob(P, job.id,
                      IF result.error # NULL THEN result.error ELSE MsgUnknown)

\* the body of processJobs' try/catch once executeSkill has settled (the
\* unlink of the job's file after a success touches no row)
HandleResult(P, job, proc) ==
    IF proc.threw
    THEN failJob(P, job.id, proc.stderr)
    ELSE LET result == executeSkill(proc) IN
         IF result.success
         THEN completeJob(P, job.id, result)
         ELSE IF result.needsAuth
         THEN failJob(P, job.id, <<AuthPrefix>> \o result.error)
         ELSE failJob(P, job.id,
                      IF result.error # NULL THEN result.error ELSE MsgUnknown)

\* the loop as it would be without its retry check: every job of the ready
\* set goes to the executor
LoopFrom_NoCeiling(P, jobs, i, maxRetries) == [posts |-> P, idx |-> i]

\* the for loop of processJobs from jobs[i] up to its next await: jobs at the
\* ceiling are failed and skipped; idx is the job whose executor is invoked,
\* or Len(jobs) + 1 when the loop has run out
RECURSIVE LoopFrom(_, _, _, _)
LoopFrom(P, jobs, i, maxRetries) ==
    IF i > Len(jobs)
    THEN [posts |-> P, idx |-> i]
    ELSE IF jobs[i].retryCount >= maxRetries
    THEN LoopFrom(failJob(P, jobs[i].id, MsgMaxRetries), jobs, i + 1, maxRetries)
    ELSE [posts |-> P, idx |-> i]

Slots == 1..MaxPasses
IdleFrame == [pc |-> "idle", jobs |-> <<>>, idx |-> 0]

\* the frame of a processJobs() call after its loop ran on from some job
FrameAfter(jobs, r) ==
    IF r.idx > Len(jobs) THEN IdleFrame
    ELSE [pc |-> "exec", jobs |-> jobs, idx |-> r.idx]

InFlight(p) == pass[p].pc # "idle"
CurrentJob(p) == pass[p].jobs[pass[p].idx]

\* ------------------------------------------------------- the tokens table
\* An optional value is <<v>> when present and NULL when absent (null,
\* undefined).  TokenData is [platform, accessToken, refreshToken, expiresAt],
\* expiresAt being a Date: <<instant>>.
Platforms == {"youtube", "facebook", "tiktok"}

\* a number that JavaScript takes as true: present and not 0
Truthy(n) == n # NULL /\ n[1] # 0

\* the upsert as it would be if a column absent in the new record kept its
\* old value
saveToken_KeepsAbsent(T, data) ==
    [p \in (DOMAIN T) \cup {data.platform} |->
        IF p = data.platform
        THEN [access_token |-> data.accessToken,
              refresh_token |-> IF data.refreshToken = NULL /\ p \in DOMAIN T
                                THEN T[p].refresh_token ELSE data.refreshToken,
              expires_at |-> IF data.expiresAt # NULL
                             THEN toISOString(data.expiresAt[1])
                             ELSE IF p \in DOMAIN T THEN T[p].expires_at ELSE NULL]
        ELSE T[p]]

\* INSERT INTO tokens ... ON CONFLICT(platform) DO UPDATE SET ...
saveToken(T, data) ==
    [p \in (DOMAIN T) \cup {data.platform} |->
        IF p = data.platform
        THEN [access_token |-> data.accessToken,
              refresh_token |-> data.refreshToken,
              expires_at |-> IF data.expiresAt # NULL
                             THEN toISOString(data.expiresAt[1]) ELSE NULL]
        ELSE T[p]]

\* SELECT * FROM tokens WHERE platform = ?
getToken(T, platform) ==
    IF platform \notin DOMAIN T THEN NULL
    ELSE <<[platform |-> platform,
            accessToken |-> T[platform].access_token,
            refreshToken |-> T[platform].refresh_token,
            expiresAt |-> IF T[platform].expires_at # NULL
                          THEN <<parseDate(T[platform].expires_at)>> ELSE NULL]>>

\* DELETE FROM tokens WHERE platform = ?
deleteToken(T, platform) ==
    [tokens |-> [p \in (DOMAIN T) \ {platform} |-> T[p]],
     changed |-> platform \in DOMAIN T]

\* ---------------------------------------------------------- token-manager.ts
\* needsRefresh as it would be if the buffer's edge counted as inside it
needsRefresh_EdgeInclusive(token, t) ==
    IF token.expiresAt = NULL THEN FALSE
    ELSE token.expiresAt[1] - t <= REFRESH_BUFFER_MS

needsRefresh(token, t) ==
    IF token.expiresAt = NULL THEN FALSE
    ELSE token.expiresAt[1] - t < REFRESH_BUFFER_MS

isExpired(token, t) ==
    IF token.expiresAt = NULL THEN FALSE
    ELSE token.expiresAt[1] <= t

calculateExpiration(expiresIn, t) == t + expiresIn

createTokenData(platform, accessToken, refreshToken, expiresIn, t) ==
    [platform |-> platform,
     accessToken |-> accessToken,
     refreshToken |-> refreshToken,
     expiresAt |-> IF Truthy(expiresIn)
                   THEN <<calculateExpiration(expiresIn[1], t)>> ELSE NULL]

storeToken(T, data) == saveToken(T, data)
removeToken(T, platform) == deleteToken(T, platform)

\* ------------------------------------------------ the providers' answers
AccessTokens == {<<"access-1">>, <<"access-2">>}
RefreshTokens == {NULL, <<"refresh-1">>}
ExpiresIn == {NULL} \cup {<<n>> : n \in 0..MaxExpiresIn}

\* the body of a token endpoint's answer; TokenError is an error answer
\* or a failed request
TokenError ==
    [ok |-> FALSE, access_token |-> NULL, refresh_token |-> NULL, expires_in |-> NULL]

TokenResponses ==
    [ok : {TRUE}, access_token : AccessTokens, refresh_token : RefreshTokens,
     expires_in : ExpiresIn] \cup {TokenError}

\* ---------------------------------------------------- platforms: refresh
\* googleapis' refreshAccessToken() hands back expiry_date, the instant of
\* expiry (an epoch time, never 0), from which the seconds left are taken
refreshYouTubeToken(token, resp, t) ==
    IF token.refreshToken = NULL THEN NULL
    ELSE IF ~resp.ok THEN NULL
    ELSE LET expiry_date == IF resp.expires_in # NULL
                            THEN <<t + resp.expires_in[1]>> ELSE NULL
         IN <<createTokenData("youtube", resp.access_token,
                              IF resp.refresh_token # NULL
                              THEN resp.refresh_token ELSE token.refreshToken,
                              IF expiry_date # NULL
                              THEN <<expiry_date[1] - t>> ELSE NULL,
                              t)>>

\* grant_type fb_exchange_token: the old access token is what is exchanged
refreshFacebookToken(token, resp, t) ==
    IF ~resp.ok THEN NULL
    ELSE <<createTokenData("facebook", resp.access_token, NULL,
                           resp.expires_in, t)>>

refreshTikTokToken(token, resp, t) ==
    IF token.refreshToken = NULL THEN NULL
    ELSE IF ~resp.ok THEN NULL
    ELSE <<createTokenData("tiktok", resp.access_token, resp.refresh_token,
                           resp.expires_in, t)>>

\* the refresh function each platform module passes to getValidToken
RefreshFnOf(platform) ==
    IF platform = "youtube" THEN "refreshYouTubeToken"
    ELSE IF platform = "facebook" THEN "refreshFacebookToken"
    ELSE "refreshTikTokToken"

\* await refreshFn(token), the provider answering resp
CallRefreshFn(refreshFn, token, resp, t) ==
    IF refreshFn = "refreshYouTubeToken" THEN refreshYouTubeToken(token, resp, t)
    ELSE IF refreshFn = "refreshFacebookToken" THEN refreshFacebookToken(token, resp, t)
    ELSE refreshTikTokToken(token, resp, t)

\* a refreshFn given by some other caller, whose promise rejects: the await
\* throws into getValidToken's catch
RejectingFn == "rejecting"

\* what a caller can pass as refreshFn for a platform
RefreshFns(platform) == {NULL, <<RefreshFnOf(platform)>>, <<RejectingFn>>}

\* getValidToken as it would be if a failed refresh discarded the stored
\* credential
getValidToken_DropsOnFailure(T, platform, refreshFn, resp, t) ==
    LET stored == getToken(T, platform) IN
      IF stored = NULL
      THEN [ret |-> NULL, tokens |-> T, calls |-> 0]
      ELSE IF ~needsRefresh(stored[1], t) /\ ~isExpired(stored[1], t)
      THEN [ret |-> stored, tokens |-> T, calls |-> 0]
      ELSE IF stored[1].refreshToken = NULL
      THEN [ret |-> NULL, tokens |-> T, calls |-> 0]
      ELSE IF refreshFn = NULL
      THEN [ret |-> NULL, tokens |-> T, calls |-> 0]
      ELSE IF refreshFn[1] = RejectingFn
      THEN [ret |-> NULL, tokens |-> deleteToken(T, platform).tokens, calls |-> 1]
      ELSE LET newToken == CallRefreshFn(refreshFn[1], stored[1], resp, t) IN
             IF newToken # NULL
             THEN [ret |-> newToken, tokens |-> saveToken(T, newToken[1]),
                   calls |-> 1]
             ELSE [ret |-> NULL, tokens |-> deleteToken(T, platform).tokens,
                   calls |-> 1]

\* getValidToken as it would be without its refresh-token check
getValidToken_NoRefreshTokenCheck(T, platform, refreshFn, resp, t) ==
    LET stored == getToken(T, platform) IN
      IF stored = NULL
      THEN [ret |-> NULL, tokens |-> T, calls |-> 0]
      ELSE IF ~needsRefresh(stored[1], t) /\ ~isExpired(stored[1], t)
      THEN [ret |-> stored, tokens |-> T, calls |-> 0]
      ELSE IF refreshFn = NULL
      THEN [ret |-> NULL, tokens |-> T, calls |-> 0]
      ELSE IF refreshFn[1] = RejectingFn
      THEN [ret |-> NULL, tokens |-> T, calls |-> 1]
      ELSE LET newToken == CallRefreshFn(refreshFn[1], stored[1], resp, t) IN
             IF newToken # NULL
             THEN [ret |-> newToken, tokens |-> saveToken(T, newToken[1]),
                   calls |-> 1]
             ELSE [ret |-> NULL, tokens |-> T, calls |-> 1]

\* getValidToken(platform, refreshFn): what it returns, the table it leaves
\* and how many times it called refreshFn
getValidToken(T, platform, refreshFn, resp, t) ==
    LET stored == getToken(T, platform) IN
      IF stored = NULL
      THEN [ret |-> NULL, tokens |-> T, calls |-> 0]
      ELSE IF ~needsRefresh(stored[1], t) /\ ~isExpired(stored[1], t)
      THEN [ret |-> stored, tokens |-> T, calls |-> 0]
      ELSE IF stored[1].refreshToken = NULL
      THEN [ret |-> NULL, tokens |-> T, calls |-> 0]
      ELSE IF refreshFn = NULL
      THEN [ret |-> NULL, tokens |-> T, calls |-> 0]
      ELSE IF refreshFn[1] = RejectingFn
      THEN [ret |-> NULL, tokens |-> T, calls |-> 1]
      ELSE LET newToken == CallRefreshFn(refreshFn[1], stored[1], resp, t) IN
             IF newToken # NULL
             THEN [ret |-> newToken, tokens |-> saveToken(T, newToken[1]),
                   calls |-> 1]
             ELSE [ret |-> NULL, tokens |-> T, calls |-> 1]

\* ------------------------------------------------------- oauth-server.ts
\* exchangeYouTubeCode / exchangeFacebookCode / exchangeTikTokCode once the
\* token endpoint has answered data: the TokenData handed to storeToken
exchangeCode(platform, data, t) ==
    IF platform = "facebook"
    THEN createTokenData("facebook", data.access_token, NULL,
                         IF Truthy(data.expires_in) THEN data.expires_in ELSE NULL,
                         t)
    ELSE createTokenData(platform, data.access_token, data.refresh_token,
                         data.expires_in, t)

\* ---------------------------------------------------- oauth-server.ts: state
\* createHash('sha256').update(codeVerifier).digest('base64url')
S256(codeVerifier) == <<"sha256", codeVerifier>>

\* the values randomBytes(32) gives generatePKCE
Verifiers == {"verifier-1", "verifier-2"}

generatePKCE(codeVerifier) ==
    [codeVerifier |-> codeVerifier, codeChallenge |-> S256(codeVerifier)]

UserId == "user"

\* generateState, state being the value of randomBytes(16): the session is
\* put in the map and a timer set that deletes it
generateState(S, state, platform, userId) ==
    [q \in (DOMAIN S) \cup {state} |->
        IF q = state
        THEN [platform |-> platform, userId |-> userId, codeVerifier |-> NULL]
        ELSE S[q]]

\* verifyState as it would be if it left the session in the map
verifyState_KeepsSession(S, state) ==
    IF state \in DOMAIN S
    THEN [data |-> <<S[state]>>, oauthStates |-> S]
    ELSE [data |-> NULL, oauthStates |-> S]

\* verifyState: the session of state, taken out of the map
verifyState(S, state) ==
    IF state \in DOMAIN S
    THEN [data |-> <<S[state]>>,
          oauthStates |-> [q \in (DOMAIN S) \ {state} |-> S[q]]]
    ELSE [data |-> NULL, oauthStates |-> S]

\* generateYouTubeAuthUrl, first and second being the verifiers of its two
\* generatePKCE() calls: the URL's parameters and the map it leaves
generateYouTubeAuthUrl(S, state, userId, first, second) ==
    LET codeChallenge == generatePKCE(first).codeChallenge
        S1 == generateState(S, state, "youtube", userId)
        S2 == [S1 EXCEPT ![state].codeVerifier = <<generatePKCE(second).codeVerifier>>]
    IN [url |-> [state |-> state, code_challenge |-> <<codeChallenge>>],
        oauthStates |-> S2]

\* generateFacebookAuthUrl, generateTikTokAuthUrl: no PKCE
generatePlainAuthUrl(S, state, platform, userId) ==
    [url |-> [state |-> state, code_challenge |-> NULL],
     oauthStates |-> generateState(S, state, platform, userId)]

generateAuthUrl(S, state, platform, userId, first, second) ==
    IF platform = "youtube"
    THEN generateYouTubeAuthUrl(S, state, userId, first, second)
    ELSE generatePlainAuthUrl(S, state, platform, userId)

\* ------------------------------------------------- oauth-server.ts: callback
\* the platform names a callback path can carry: \w+
PathPlatforms == Platforms \cup {"other"}

\* the token request an exchange function sends: exchangeYouTubeCode reads the
\* verifier from the map as it is when it runs
exchangeRequest(S, platform, code, state) ==
    [platform |-> platform,
     code |-> code,
     code_verifier |-> IF platform = "youtube" /\ state \in DOMAIN S
                       THEN S[state].codeVerifier ELSE NULL]

\* the handler as it would be if it verified the state before looking at
\* the error and code parameters
callbackStart_VerifiesFirst(S, platform, req) ==
    LET v == verifyState(S, IF req.state = NULL THEN 0 ELSE req.state[1]) IN
      IF req.error # NULL
      THEN [status |-> 400, oauthStates |-> v.oauthStates, request |-> NULL]
      ELSE IF req.code = NULL \/ req.state = NULL
      THEN [status |-> 400, oauthStates |-> v.oauthStates, request |-> NULL]
      ELSE IF v.data = NULL
      THEN [status |-> 400, oauthStates |-> v.oauthStates, request |-> NULL]
      ELSE IF platform \notin Platforms
      THEN [status |-> 500, oauthStates |-> v.oauthStates, request |-> NULL]
      ELSE [status |-> 0, oauthStates |-> v.oauthStates,
            request |-> <<exchangeRequest(v.oauthStates, platform,
                                          req.code[1], req.state[1])>>]

\* the callback handler up to its await: the status it answers with (0: none
\* yet), the map it leaves and the token request it has sent, if any
callbackStart(S, platform, req) ==
    IF req.error # NULL
    THEN [status |-> 400, oauthStates |-> S, request |-> NULL]
    ELSE IF req.code = NULL \/ req.state = NULL
    THEN [status |-> 400, oauthStates |-> S, request |-> NULL]
    ELSE LET v == verifyState(S, req.state[1]) IN
           IF v.data = NULL
           THEN [status |-> 400, oauthStates |-> v.oauthStates, request |-> NULL]
           ELSE IF platform \notin Platforms
           THEN [status |-> 500, oauthStates |-> v.oauthStates, request |-> NULL]
           ELSE [status |-> 0, oauthStates |-> v.oauthStates,
                 request |-> <<exchangeRequest(v.oauthStates, platform,
                                               req.code[1], req.state[1])>>]

\* the rest of the handler as it would be if a failed exchange were answered
\* like a successful one
callbackFinish_AlwaysOk(T, request, data, t) ==
    IF data.ok
    THEN [status |-> 200,
          tokens |-> storeToken(T, exchangeCode(request.platform, data, t))]
    ELSE [status |-> 200, tokens |-> T]

\* the rest of the handler as it would be if the answer of a failed
\* exchange were stored like a credential
callbackFinish_StoresOnFailure(T, request, data, t) ==
    [status |-> IF data.ok THEN 200 ELSE 500,
     tokens |-> storeToken(T, exchangeCode(request.platform, data, t))]

\* the rest of the handler, the token endpoint having answered data
callbackFinish(T, request, data, t) ==
    IF data.ok
    THEN [status |-> 200,
          tokens |-> storeToken(T, exchangeCode(request.platform, data, t))]
    ELSE [status |-> 500, tokens |-> T]

\* ---------------------------------------------------------------------- Init
RetryConfigs == {DEFAULT_MAX_RETRIES - 1, DEFAULT_MAX_RETRIES, DEFAULT_MAX_RETRIES + 1}

Init ==
    /\ posts = <<>>
    /\ nextId = 1
    /\ now = 0
    /\ MAX_RETRIES \in RetryConfigs
    /\ phase = "boot"
    /\ pass = [p \in Slots |-> IdleFrame]
    /\ tokens = [platform \in {} |-> NULL]
    /\ oauthStates = [state \in {} |-> NULL]
    /\ timers = [state \in {} |-> 0]
    /\ nextState = 1
    /\ exchanges = [state \in {} |-> NULL]
    /\ refreshes = [platform \in {} |-> NULL]

\* ------------------------------------------------- scheduler skill CLI (main)
\* addJob(request): scheduledAt as given, or new Date() when the request has none
addJob(P, id, request, t) ==
    addPost(P, id, IF request.scheduledAt # NULL THEN request.scheduledAt ELSE <<t>>, t)

MsgMissingFields == <<"Missing required fields: platform, action">>

\* case 'add' as it would be without the check of the required fields
caseAdd_NoValidation(P, id, request, t) ==
    [result |-> [success |-> TRUE, jobId |-> <<id>>, error |-> NULL],
     posts |-> addJob(P, id, request, t)]

\* case 'add' of main, id being the row id the table would give: the
\* SkillResult printed and the table left
caseAdd(P, id, request, t) ==
    IF request.platform = NULL \/ request.action = NULL
    THEN [result |-> [success |-> FALSE, jobId |-> NULL, error |-> MsgMissingFields],
          posts |-> P]
    ELSE [result |-> [success |-> TRUE, jobId |-> <<id>>, error |-> NULL],
          posts |-> addJob(P, id, request, t)]

\* case 'add'
AddJob(request) ==
    /\ nextId <= MaxJobs
    /\ LET r == caseAdd(posts, nextId, request, now) IN
         /\ posts' = r.posts
         /\ nextId' = IF r.result.success THEN nextId + 1 ELSE nextId
    /\ UNCHANGED <<now, MAX_RETRIES, phase, pass, authVars>>

\* case 'cancel': cancel(id), returning ok
Cancel(id, ok) ==
    /\ ok = cancelJob(posts, id).changed
    /\ posts' = cancelJob(posts, id).posts
    /\ UNCHANGED <<nextId, now, MAX_RETRIES, phase, pass, authVars>>

\* case 'retry': retry(id), returning ok
Retry(id, ok) ==
    /\ ok = retryJob(posts, id).changed
    /\ posts' = retryJob(posts, id).posts
    /\ UNCHANGED <<nextId, now, MAX_RETRIES, phase, pass, authVars>>

\* case 'cleanup', and runCleanup of the daily cron entry: cleanup(days),
\* returning deleted
Cleanup(days, deleted) ==
    /\ deleted = deleteOldPosts(posts, days, now).changes
    /\ posts' = deleteOldPosts(posts, days, now).posts
    /\ UNCHANGED <<nextId, now, MAX_RETRIES, phase, pass, authVars>>

\* ---------------------------------------------------------- the scheduler
\* startScheduler: the immediate processJobs(), up to its first await
StartScheduler ==
    /\ phase = "boot"
    /\ \E jobs \in getReadyJobs(posts, now) :
         LET r == LoopFrom(posts, jobs, 1, MAX_RETRIES) IN
           /\ posts' = r.posts
           /\ pass' = [pass EXCEPT ![1] = FrameAfter(jobs, r)]
           /\ phase' = IF r.idx > Len(jobs) THEN "running" ELSE "startup"
    /\ UNCHANGED <<nextId, now, MAX_RETRIES, authVars>>

\* a cron tick: processJobs() starts whether or not an earlier call is
\* still awaiting its executor
Tick(p) ==
    /\ phase = "running"
    /\ ~InFlight(p)
    /\ \A q \in Slots : q < p => InFlight(q)
    /\ p > 1 => nextId - 1 <= MaxOverlapJobs
    /\ \E jobs \in getReadyJobs(posts, now) :
         LET r == LoopFrom(posts, jobs, 1, MAX_RETRIES) IN
           /\ posts' = r.posts
           /\ pass' = [pass EXCEPT ![p] = FrameAfter(jobs, r)]
    /\ UNCHANGED <<nextId, now, MAX_RETRIES, phase, authVars>>

\* the return of an executor as it would be if the loop went on from the
\* job after the next
ExecutorReturns_SkipsOne(p, proc) ==
    /\ pass[p].pc = "exec"
    /\ LET P1 == HandleResult(posts, CurrentJob(p), proc)
           r == LoopFrom(P1, pass[p].jobs, pass[p].idx + 2, MAX_RETRIES)
       IN /\ posts' = r.posts
          /\ pass' = [pass EXCEPT ![p] = FrameAfter(pass[p].jobs, r)]
          /\ phase' = IF phase = "startup" /\ r.idx > Len(pass[p].jobs)
                      THEN "running" ELSE phase
    /\ UNCHANGED <<nextId, now, MAX_RETRIES, authVars>>

\* the awaited executeSkill() settles with proc: processJobs records the
\* result and runs on to its next await, or returns
ExecutorReturns(p, proc) ==
    /\ pass[p].pc = "exec"
    /\ LET P1 == HandleResult(posts, CurrentJob(p), proc)
           r == LoopFrom(P1, pass[p].jobs, pass[p].idx + 1, MAX_RETRIES)
       IN /\ posts' = r.posts
          /\ pass' = [pass EXCEPT ![p] = FrameAfter(pass[p].jobs, r)]
          /\ phase' = IF phase = "startup" /\ r.idx > Len(pass[p].jobs)
                      THEN "running" ELSE phase
    /\ UNCHANGED <<nextId, now, MAX_RETRIES, authVars>>

\* the clock
Advance ==
    /\ now < MaxTime
    /\ now' = now + 1
    /\ UNCHANGED <<posts, nextId, MAX_RETRIES, phase, pass, authVars>>

\* a request for now: platform and action given, no scheduledAt
RequestNow ==
    [platform |-> <<"youtube">>, action |-> <<"upload">>, scheduledAt |-> NULL]

\* the requests given to 'add': no scheduledAt, or one hour from now
Requests == {RequestNow, [RequestNow EXCEPT !.scheduledAt = <<now + Hour>>]}

\* requests that lack platform, action or both
MalformedRequests ==
    {[r EXCEPT !.platform = NULL] : r \in Requests}
      \cup {[r EXCEPT !.action = NULL] : r \in Requests}
      \cup {[r EXCEPT !.platform = NULL, !.action = NULL] : r \in Requests}

Next ==
    \/ \E request \in Requests : AddJob(request)
    \/ \E id \in 1..MaxJobs, ok \in BOOLEAN : Cancel(id, ok)
    \/ \E id \in 1..MaxJobs, ok \in BOOLEAN : Retry(id, ok)
    \/ \E days \in 1..MaxDays, deleted \in 0..MaxJobs : Cleanup(days, deleted)
    \/ StartScheduler
    \/ \E p \in Slots : Tick(p)
    \/ \E p \in Slots, proc \in ProcOutcomes : ExecutorReturns(p, proc)
    \/ Advance

Spec == Init /\ [][Next]_vars

\* the automatic behaviour alone: no manual retry, cancel or cleanup; the
\* scheduler process runs, its executors return and the clock moves on
NextAuto ==
    \/ \E request \in Requests : AddJob(request)
    \/ StartScheduler
    \/ \E p \in Slots : Tick(p)
    \/ \E p \in Slots, proc \in ProcOutcomes : ExecutorReturns(p, proc)
    \/ Advance

Dispatch ==
    \/ StartScheduler
    \/ \E p \in Slots : Tick(p)
    \/ \E p \in Slots, proc \in ProcOutcomes : ExecutorReturns(p, proc)

FairAuto == Init /\ [][NextAuto]_vars /\ WF_vars(Dispatch) /\ WF_vars(Advance)

\* everything the program and its user can do, the scheduler process running
\* on: cron keeps firing, every executor returns and the clock moves on
FairSpec == Spec /\ WF_vars(Dispatch) /\ WF_vars(Advance)

\* ------------------------------------------ queue.ts under any caller
\* failJob(id, error), called by a client of the queue
FailJob(id, error) ==
    /\ id \in Ids => posts[id].retry_count < MaxFails
    /\ posts' = failJob(posts, id, error)
    /\ UNCHANGED <<nextId, now, MAX_RETRIES, phase, pass, authVars>>

\* completeJob(id, result), called by a client of the queue
CompleteJob(id, result) ==
    /\ posts' = completeJob(posts, id, result)
    /\ UNCHANGED <<nextId, now, MAX_RETRIES, phase, pass, authVars>>

\* the queue with the default configuration, its operations called in any
\* order by the CLI and by a dispatcher
QueueInit == Init /\ MAX_RETRIES = DEFAULT_MAX_RETRIES

QueueNext ==
    \/ \E request \in Requests \cup MalformedRequests :
         nextId <= MaxQueueJobs /\ AddJob(request)
    \/ \E id \in 1..MaxJobs, ok \in BOOLEAN : Cancel(id, ok)
    \/ \E id \in 1..MaxJobs, ok \in BOOLEAN : Retry(id, ok)
    \/ \E days \in 1..MaxDays, deleted \in 0..MaxJobs : Cleanup(days, deleted)
    \/ \E id \in 1..MaxJobs : FailJob(id, SkillFailure.error)
    \/ \E id \in 1..MaxJobs : CompleteJob(id, SkillSuccess)
    \/ Advance

QueueSpec == QueueInit /\ [][QueueNext]_vars

\* the scheduler process on its own, started with the default configuration
DispatchSpec == QueueInit /\ [][NextAuto]_vars

\* the scheduler process started with MAX_RETRIES below the 3 of the ready
\* query, the only configuration in which the loop's retry check can meet a
\* job at the ceiling, with the manual retry of failed jobs; every call of
\* processJobs returns before the next cron tick
RetryInit == Init /\ MAX_RETRIES = DEFAULT_MAX_RETRIES - 1

RetryNext ==
    \/ \E request \in Requests : AddJob(request)
    \/ StartScheduler
    \/ Tick(1)
    \/ \E proc \in ProcOutcomes : ExecutorReturns(1, proc)
    \/ Advance
    \/ \E id \in 1..MaxJobs, ok \in BOOLEAN : Retry(id, ok)

RetrySpec == RetryInit /\ [][RetryNext]_vars

\* ------------------------------------------- the credentials under any caller
\* the OAuth callback of a platform, from the exchange of the code on: the
\* token endpoint answers data; an error answer throws and stores nothing
Exchange(platform, data) ==
    /\ tokens' = IF data.ok
                 THEN storeToken(tokens, exchangeCode(platform, data, now))
                 ELSE tokens
    /\ UNCHANGED <<queueVars, now, oauthVars, refreshes>>

\* getValidToken(platform, refreshFn), the provider answering resp if asked
GetValid(platform, refreshFn, resp) ==
    /\ tokens' = getValidToken(tokens, platform, refreshFn, resp, now).tokens
    /\ UNCHANGED <<queueVars, now, oauthVars, refreshes>>

\* removeToken(platform)
RemoveToken(platform) ==
    /\ tokens' = removeToken(tokens, platform).tokens
    /\ UNCHANGED <<queueVars, now, oauthVars, refreshes>>

TokenInit == Init /\ MAX_RETRIES = DEFAULT_MAX_RETRIES

TokenNext ==
    \/ \E platform \in Platforms, data \in TokenResponses : Exchange(platform, data)
    \/ \E platform \in Platforms :
         \E refreshFn \in RefreshFns(platform) :
           \E resp \in IF refreshFn = <<RefreshFnOf(platform)>>
                        THEN TokenResponses ELSE {TokenError} :
               GetValid(platform, refreshFn, resp)
    \/ \E platform \in Platforms : RemoveToken(platform)
    \/ Advance

TokenSpec == TokenInit /\ [][TokenNext]_vars

\* --------------------------------------------------- the OAuth server
\* openAuthUrl / generateAuthUrl(platform, userId): a handshake is begun,
\* randomBytes giving a state token never issued before and two verifiers
BeginHandshake(platform, first, second) ==
    /\ nextState <= MaxStates
    /\ oauthStates' = generateAuthUrl(oauthStates, nextState, platform, UserId,
                                      first, second).oauthStates
    /\ timers' = [q \in (DOMAIN timers) \cup {nextState} |->
                     IF q = nextState THEN now + STATE_TTL_MS ELSE timers[q]]
    /\ nextState' = nextState + 1
    /\ UNCHANGED <<queueVars, now, tokens, exchanges, refreshes>>

\* the query parameters a callback request can carry; state 0 was never issued
CallbackRequests ==
    [code : {NULL, <<"code">>},
     state : {NULL} \cup {<<q>> : q \in 0..MaxStates},
     error : {NULL, <<"access_denied">>}]

\* GET /auth/{platform}/callback, up to the handler's await
CallbackArrives(platform, req) ==
    LET r == callbackStart(oauthStates, platform, req) IN
      /\ oauthStates' = r.oauthStates
      /\ exchanges' = IF r.request = NULL THEN exchanges
                      ELSE [q \in (DOMAIN exchanges) \cup {req.state[1]} |->
                               IF q = req.state[1] THEN r.request[1]
                               ELSE exchanges[q]]
      /\ UNCHANGED <<queueVars, now, tokens, timers, nextState, refreshes>>

\* what the token endpoint answers a code exchange with
AuthResponses ==
    {data \in TokenResponses :
        \/ ~data.ok
        \/ /\ data.access_token = <<"access-1">>
           /\ data.refresh_token # NULL
           /\ data.expires_in = NULL}

\* the token endpoint answers the exchange of the callback that consumed state
ExchangeReturns(state, data) ==
    /\ state \in DOMAIN exchanges
    /\ tokens' = callbackFinish(tokens, exchanges[state], data, now).tokens
    /\ exchanges' = [q \in (DOMAIN exchanges) \ {state} |-> exchanges[q]]
    /\ UNCHANGED <<queueVars, now, oauthStates, timers, nextState, refreshes>>

\* the clock as it would move if no timer had been set
AdvanceAuth_NoTimer ==
    /\ now < MaxTime
    /\ now' = now + 1
    /\ UNCHANGED <<queueVars, tokens, oauthVars, refreshes>>

\* the clock of the OAuth server moves on: the timers that have come due run
\* before any request is handled
AdvanceAuth ==
    /\ now < MaxTime
    /\ now' = now + 1
    /\ LET due == {q \in DOMAIN timers : timers[q] <= now + 1} IN
         /\ oauthStates' = [q \in (DOMAIN oauthStates) \ due |-> oauthStates[q]]
         /\ timers' = [q \in (DOMAIN timers) \ due |-> timers[q]]
    /\ UNCHANGED <<queueVars, tokens, nextState, exchanges, refreshes>>

AuthNext ==
    \/ \E platform \in Platforms, first \in Verifiers, second \in Verifiers :
         BeginHandshake(platform, first, second)
    \/ \E platform \in PathPlatforms, req \in CallbackRequests :
         CallbackArrives(platform, req)
    \/ \E state \in 1..MaxStates, data \in AuthResponses :
         ExchangeReturns(state, data)
    \/ AdvanceAuth

AuthSpec == TokenInit /\ [][AuthNext]_vars

\* ------------------------------ getValidToken across its await of refreshFn
\* getValidToken(platform, refreshFn) up to `await refreshFn(token)`: the
\* record is read and found stale, with a refresh token
RefreshBegins(platform) ==
    /\ platform \notin DOMAIN refreshes
    /\ Cardinality(DOMAIN refreshes) < MaxRefreshes
    /\ LET stored == getToken(tokens, platform) IN
         /\ stored # NULL
         /\ needsRefresh(stored[1], now) \/ isExpired(stored[1], now)
         /\ stored[1].refreshToken # NULL
         /\ refreshes' = [p \in DOMAIN refreshes \cup {platform} |->
                             IF p = platform THEN stored[1] ELSE refreshes[p]]
    /\ UNCHANGED <<queueVars, now, tokens, oauthVars>>

\* refreshFn settles, the provider having answered resp: the new credential,
\* built from the record read before the await, is saved if there is one
RefreshReturns(platform, resp) ==
    /\ platform \in DOMAIN refreshes
    /\ LET newToken == CallRefreshFn(RefreshFnOf(platform), refreshes[platform],
                                     resp, now)
       IN tokens' = IF newToken # NULL THEN saveToken(tokens, newToken[1])
                    ELSE tokens
    /\ refreshes' = [p \in (DOMAIN refreshes) \ {platform} |-> refreshes[p]]
    /\ UNCHANGED <<queueVars, now, oauthVars>>

\* the platforms whose handshake stores a refresh token: exchangeFacebookCode
\* stores none, so getValidToken never gets to refreshFn for Facebook
RefreshPlatforms == Platforms \ {"facebook"}

\* the credentials with handshakes and refreshes of separate processes (the
\* OAuth server, the skills) interleaved
RefreshNext ==
    \/ \E platform \in RefreshPlatforms, data \in TokenResponses :
         Exchange(platform, data)
    \/ \E platform \in RefreshPlatforms : RefreshBegins(platform)
    \/ \E platform \in RefreshPlatforms, resp \in TokenResponses :
         RefreshReturns(platform, resp)
    \/ Advance

RefreshSpec == TokenInit /\ [][RefreshNext]_vars

\* ------------------------------------------------------------------ helpers
\* the ids of the jobs in every list readySet() may return now
InReadySet(i) ==
    \A jobs \in getReadyJobs(posts, now) : \E k \in 1..Len(jobs) : jobs[k].id = i

Executing(i) == \E p \in Slots : InFlight(p) /\ CurrentJob(p).id = i

\* ------------------------------------------------------------------- claims

\* C1: readySet() returns no job that is not pending, none scheduled later
\* than now and none with retryCount >= the configured maxRetries.
C1_ReadySetSound ==
    \A jobs \in getReadyJobs(posts, now) : \A k \in 1..Len(jobs) :
        LET row == posts[jobs[k].id] IN
          /\ row.status = "pending"
          /\ row.scheduled_at # NULL => parseDate(row.scheduled_at) <= now
          /\ jobs[k].retryCount < MAX_RETRIES

\* C2: readySet() is complete: every pending job whose schedule time has been
\* reached and whose retryCount is below maxRetries is in the returned list.
C2_ReadySetComplete ==
    \A i \in Ids :
        ( /\ posts[i].status = "pending"
          /\ (posts[i].scheduled_at = NULL \/ parseDate(posts[i].scheduled_at) <= now)
          /\ posts[i].retry_count < MAX_RETRIES )
        => InReadySet(i)

\* C3: a job that failed with retryCount still below maxRetries is executed
\* again by some later dispatch tick, without a manual retry().
C3_AutomaticRetry ==
    \A i \in 1..MaxJobs :
        ( /\ i \in Ids
          /\ posts[i].status = "failed"
          /\ posts[i].retry_count < MAX_RETRIES
          /\ ~Executing(i) )
        ~> Executing(i)

\* C4: every status change of a job is pending -> completed, pending ->
\* failed, or failed -> pending by retry(); so a completed job never changes
\* status and a failed job never becomes completed directly.
C4_StatusTransitions ==
    [][\A i \in Ids \cap DOMAIN posts' :
          posts[i].status # posts'[i].status =>
            \/ posts[i].status = "pending" /\ posts'[i].status \in {"completed", "failed"}
            \/ posts[i].status = "failed" /\ posts'[i].status = "pending" /\ Retry(i, TRUE)
      ]_vars

\* C5: the dispatch loop never has two executor invocations in flight at the
\* same time.
C5_OneExecutorInFlight ==
    Cardinality({p \in Slots : pass[p].pc = "exec"}) <= 1

\* C6 (scenario A): a job enqueued with no scheduledAt is in readySet() right
\* after enqueue; a dispatch tick that finds a job below the ceiling in the
\* ready set invokes the executor; an executor success leaves the job
\* completed with the executor's result stored.
C6_ScenarioA ==
    [][ /\ AddJob(RequestNow) =>
             \A jobs \in getReadyJobs(posts', now') :
                 \E k \in 1..Len(jobs) : jobs[k].id = nextId
        /\ \A p \in Slots :
             ( /\ Tick(p)
               /\ \E i \in ReadyIds(posts, now) : posts[i].retry_count < MAX_RETRIES )
             => pass'[p].pc = "exec"
        /\ \A p \in Slots :
             ( /\ ExecutorReturns(p, SkillMain(SkillSuccess, NULL))
               /\ CurrentJob(p).id \in DOMAIN posts' )
             => /\ posts'[CurrentJob(p).id].status = "completed"
                /\ posts'[CurrentJob(p).id].result_json = <<SkillSuccess>>
      ]_vars

\* a job enqueued with scheduledAt one hour after its creation
ScheduledOneHourAhead(i) ==
    parseDate(posts[i].scheduled_at) = parseDate(posts[i].created_at) + Hour

\* C7 (scenario B): a job enqueued with scheduledAt one hour ahead is absent
\* from readySet() while now < scheduledAt and present at every time now >=
\* scheduledAt while it is pending and below the retry ceiling.
C7_ScenarioB ==
    \A i \in Ids :
        ScheduledOneHourAhead(i) =>
          /\ now < parseDate(posts[i].scheduled_at) => i \notin ReadyIds(posts, now)
          /\ ( /\ now >= parseDate(posts[i].scheduled_at)
               /\ posts[i].status = "pending"
               /\ posts[i].retry_count < MAX_RETRIES )
             => InReadySet(i)

\* C8 (scenario C): with maxRetries = 3, a job that has failed 3 times is not
\* in readySet(); retry() on it returns true and makes it pending, its
\* retryCount stays what it was and readySet() still leaves it out.
C8_AtCeiling(i) == MAX_RETRIES = 3 /\ i \in Ids /\ posts[i].retry_count >= 3

C8_RetryKeepsCeiling ==
    /\ [](\A i \in 1..MaxJobs : C8_AtCeiling(i) => i \notin ReadyIds(posts, now))
    /\ [][\A i \in 1..MaxJobs : \A ok \in BOOLEAN :
            ( /\ C8_AtCeiling(i)
              /\ posts[i].status = "failed"
              /\ Retry(i, ok) )
            => /\ ok
               /\ posts'[i].status = "pending"
               /\ posts'[i].retry_count = posts[i].retry_count
               /\ \A jobs \in getReadyJobs(posts', now') :
                     \A k \in 1..Len(jobs) : jobs[k].id # i
       ]_vars

\* a job that failed 3 times, was retried, and is pending again at the ceiling
C8_Witness ==
    \E i \in Ids :
        /\ MAX_RETRIES = 3
        /\ posts[i].status = "pending"
        /\ posts[i].retry_count = 3
        /\ posts[i].error_message = NULL

\* C9: a job whose retryCount has reached maxRetries shows as failed with the
\* 'Max retries exceeded' message, and no dispatch tick that starts afterwards
\* invokes the executor for it.
C9_CeilingVisible ==
    /\ [](\A i \in 1..MaxJobs :
            (i \in Ids /\ posts[i].retry_count >= MAX_RETRIES) =>
                /\ posts[i].status = "failed"
                /\ posts[i].error_message = MsgMaxRetries)
    /\ [][\A p \in Slots :
            (Tick(p) /\ pass'[p].pc = "exec") =>
                posts[pass'[p].jobs[pass'[p].idx].id].retry_count < MAX_RETRIES
       ]_vars

\* C10: when the skill reports needsAuth for a dispatched job, the job is
\* failed with a message that begins 'Authentication required' and its
\* retryCount goes up by exactly 1.
C10_NeedsAuthMessage ==
    [][\A p \in Slots : \A e \in StderrTexts :
          ( /\ ExecutorReturns(p, SkillMain(SkillNeedsAuth, e))
            /\ CurrentJob(p).id \in Ids )
          => /\ posts'[CurrentJob(p).id].status = "failed"
             /\ Head(posts'[CurrentJob(p).id].error_message) = AuthPrefix
             /\ posts'[CurrentJob(p).id].retry_count
                  = posts[CurrentJob(p).id].retry_count + 1
      ]_vars

\* the snapshot jobs of pass p after position k that are below the ceiling
LiveAfter(p, k) ==
    {j \in (k + 1)..Len(pass[p].jobs) : pass[p].jobs[j].retryCount < MAX_RETRIES}

\* C11: when the executor throws for one job of a tick, that job is failed
\* with the thrown error's message and retryCount + 1, and the loop goes on:
\* the same call invokes the executor for the next remaining job, and returns
\* only when no job of its ready set remains.
C11_ThrowBecomesFail ==
    [][\A p \in Slots :
          ( /\ ExecutorReturns(p, SpawnError)
            /\ CurrentJob(p).id \in Ids )
          => /\ posts'[CurrentJob(p).id].status = "failed"
             /\ posts'[CurrentJob(p).id].error_message = SpawnError.stderr
             /\ posts'[CurrentJob(p).id].retry_count
                  = posts[CurrentJob(p).id].retry_count + 1
             /\ IF LiveAfter(p, pass[p].idx) = {}
                THEN pass'[p] = IdleFrame
                ELSE /\ pass'[p].pc = "exec"
                     /\ pass'[p].jobs = pass[p].jobs
                     /\ \A j \in LiveAfter(p, pass[p].idx) : pass'[p].idx <= j
                     /\ pass'[p].idx \in LiveAfter(p, pass[p].idx)
      ]_vars

\* the first job of a pass was failed by a throw and the same pass is now
\* running the executor of its second job
C11_Witness ==
    \E p \in Slots :
        /\ pass[p].pc = "exec"
        /\ pass[p].idx = 2
        /\ pass[p].jobs[1].id \in Ids
        /\ posts[pass[p].jobs[1].id].status = "failed"
        /\ posts[pass[p].jobs[1].id].error_message = SpawnError.stderr

\* the UTC day after the one job i is scheduled on lies within the modelled
\* clock range
C12_NextDayModelled(i) ==
    parseDate(posts[i].scheduled_at) \div DayLen < MaxTime \div DayLen

\* C12: every pending job whose schedule time has passed and whose retryCount
\* is below maxRetries eventually leaves the pending status, while ticks keep
\* firing and every executor invocation terminates.
C12_PendingEventuallyLeaves ==
    \A i \in 1..MaxJobs :
        ( /\ i \in Ids
          /\ posts[i].status = "pending"
          /\ parseDate(posts[i].scheduled_at) <= now
          /\ C12_NextDayModelled(i)
          /\ posts[i].retry_count < MAX_RETRIES )
        ~> (i \notin Ids \/ posts[i].status # "pending")

\* C13: in every list readySet() returns, a job scheduled earlier comes before
\* a job scheduled later, and of two jobs with equal schedule times the one
\* enqueued first (the lower id) comes first, whenever they were enqueued.
C13_ReadySetOrder ==
    \A jobs \in getReadyJobs(posts, now) :
        \A x, y \in 1..Len(jobs) :
            x < y =>
              LET a == posts[jobs[x].id]
                  b == posts[jobs[y].id]
              IN /\ parseDate(a.scheduled_at) <= parseDate(b.scheduled_at)
                 /\ parseDate(a.scheduled_at) = parseDate(b.scheduled_at)
                      => jobs[x].id < jobs[y].id

\* C14: the job created by enqueue (addJob) is pending with retryCount 0, no
\* result payload and no error message, and gets an id no job had before.
C14_EnqueuedJobFresh ==
    [][\A request \in Requests :
          AddJob(request) =>
            /\ nextId \notin Ids
            /\ nextId \in DOMAIN posts'
            /\ posts'[nextId].status = "pending"
            /\ posts'[nextId].retry_count = 0
            /\ posts'[nextId].result_json = NULL
            /\ posts'[nextId].error_message = NULL
      ]_vars

\* a job has just been enqueued and nothing has touched it yet
C14_Witness ==
    /\ nextId = 2
    /\ 1 \in Ids
    /\ posts[1].status = "pending"
    /\ posts[1].retry_count = 0
    /\ posts[1].created_at = datetime(now)

\* C15: every fail(jobId, msg) on an existing job adds exactly 1 to its
\* retryCount and leaves it failed with msg, whatever its status was; nothing
\* else changes a retryCount, so after N calls it is the initial value plus N.
C15_FailCounts ==
    [][ /\ \A i \in Ids :
             FailJob(i, SkillFailure.error) =>
               /\ i \in DOMAIN posts'
               /\ posts'[i].status = "failed"
               /\ posts'[i].error_message = SkillFailure.error
               /\ posts'[i].retry_count = posts[i].retry_count + 1
        /\ \A i \in Ids \cap DOMAIN posts' :
             posts'[i].retry_count # posts[i].retry_count =>
               FailJob(i, SkillFailure.error)
      ]_vars

\* a job that was completed and then failed twice: failed, retryCount 2
C15_Witness ==
    \E i \in Ids :
        /\ posts[i].result_json # NULL
        /\ posts[i].status = "failed"
        /\ posts[i].retry_count = 2

\* C16: retry(jobId) on a job that is not failed, or on no job, returns false
\* and changes no job; on a failed job it returns true, makes it pending,
\* clears its error message and changes neither its retryCount nor any other
\* field or job.
C16_RetryFrame ==
    \A id \in 1..MaxJobs :
        LET r == retryJob(posts, id) IN
          IF id \in Ids /\ posts[id].status = "failed"
          THEN /\ r.changed
               /\ r.posts = [posts EXCEPT ![id].status = "pending",
                                           ![id].error_message = NULL]
               /\ r.posts[id].retry_count = posts[id].retry_count
          ELSE /\ ~r.changed
               /\ r.posts = posts

\* a job that failed and was retried: pending again, its count kept
C16_Witness ==
    \E i \in Ids :
        /\ posts[i].status = "pending"
        /\ posts[i].retry_count = 1
        /\ posts[i].error_message = NULL

\* C17: cancel(jobId) on a job that is not pending, or on no job, returns
\* false and changes no job; on a pending job it returns true and makes it
\* failed with the message 'Cancelled by user'; the row stays in the table
\* and nothing else of it changes.
C17_CancelFrame ==
    \A id \in 1..MaxJobs :
        LET r == cancelJob(posts, id) IN
          IF id \in Ids /\ posts[id].status = "pending"
          THEN /\ r.changed
               /\ id \in DOMAIN r.posts
               /\ r.posts = [posts EXCEPT ![id].status = "failed",
                                           ![id].error_message = MsgCancelled]
          ELSE /\ ~r.changed
               /\ r.posts = posts

\* a cancelled job: still in the table, failed with the sentinel message
C17_Witness ==
    \E i \in Ids :
        /\ posts[i].status = "failed"
        /\ posts[i].error_message = MsgCancelled
        /\ posts[i].retry_count = 0

\* what cleanup(days) does to the table as it is now
C18_PurgeRight(days) ==
    LET r == deleteOldPosts(posts, days, now)
        cutoff == now - days * DayLen
    IN /\ \A i \in Ids :
            /\ posts[i].status = "pending" => i \in DOMAIN r.posts
            /\ ( /\ posts[i].status \in {"completed", "failed"}
                 /\ parseDate(posts[i].created_at) < cutoff )
               => i \notin DOMAIN r.posts
            /\ parseDate(posts[i].created_at) >= cutoff => i \in DOMAIN r.posts
            /\ i \in DOMAIN r.posts => r.posts[i] = posts[i]
       /\ DOMAIN r.posts \subseteq Ids
       /\ r.changes = Cardinality(Ids \ DOMAIN r.posts)

\* C18: cleanup(days) deletes no pending job whatever its age, deletes every
\* completed or failed job created before now - days, keeps every job created
\* at or after that cutoff and returns the number of rows it deleted; and no
\* step other than a cleanup removes a job from the table.
C18_PurgeSafe ==
    /\ [](\A days \in 1..MaxDays : C18_PurgeRight(days))
    /\ [][ (\E i \in Ids : i \notin DOMAIN posts') =>
              \E days \in 1..MaxDays :
                  Cleanup(days, Cardinality(Ids \ DOMAIN posts'))
       ]_vars

\* a cleanup has deleted the job that was enqueued
C18_Witness ==
    /\ nextId = 2
    /\ Ids = {}

\* neither expired nor within the refresh buffer of its expiry
C19_Fresh(token) ==
    \/ token.expiresAt = NULL
    \/ token.expiresAt[1] > now /\ token.expiresAt[1] - now >= REFRESH_BUFFER_MS

\* C19: getValid(platform, refreshFn) returns absent when nothing is stored;
\* returns the stored credential as it is, without calling refreshFn, when it
\* is fresh; when it is stale with a refresh token and a refreshFn it calls
\* refreshFn, stores the credential refreshFn gives and returns it; when it is
\* stale with no refresh token or no refreshFn it returns absent without
\* calling refreshFn.  Nothing but a successful refresh changes the table.
C19_GetValid ==
    \A platform \in Platforms, resp \in TokenResponses :
      \A refreshFn \in {NULL, <<RefreshFnOf(platform)>>} :
        LET g == getValidToken(tokens, platform, refreshFn, resp, now)
            stored == getToken(tokens, platform)
        IN IF stored = NULL
           THEN g.ret = NULL /\ g.calls = 0 /\ g.tokens = tokens
           ELSE IF C19_Fresh(stored[1])
           THEN g.ret = stored /\ g.calls = 0 /\ g.tokens = tokens
           ELSE IF stored[1].refreshToken # NULL /\ refreshFn # NULL
           THEN LET n == CallRefreshFn(refreshFn[1], stored[1], resp, now) IN
                  /\ g.calls = 1
                  /\ g.ret = n
                  /\ IF n = NULL THEN g.tokens = tokens
                     ELSE /\ getToken(g.tokens, platform) = n
                          /\ \A p \in DOMAIN tokens \ {platform} :
                                 p \in DOMAIN g.tokens /\ g.tokens[p] = tokens[p]
           ELSE g.ret = NULL /\ g.calls = 0 /\ g.tokens = tokens

\* the cases side by side: a stale credential with a refresh token, a stale
\* one without, and a fresh one that has an expiry
C19_Witness ==
    /\ \E platform \in DOMAIN tokens :
          /\ ~C19_Fresh(getToken(tokens, platform)[1])
          /\ tokens[platform].refresh_token # NULL
    /\ \E platform \in DOMAIN tokens :
          /\ ~C19_Fresh(getToken(tokens, platform)[1])
          /\ tokens[platform].refresh_token = NULL
    /\ \E platform \in DOMAIN tokens :
          /\ C19_Fresh(getToken(tokens, platform)[1])
          /\ tokens[platform].expires_at # NULL

\* the provider can refresh what is stored for the platform: Facebook
\* exchanges the access token itself, the others need the refresh token
C20_ProviderGrantsRefresh(platform) ==
    platform = "facebook" \/ tokens[platform].refresh_token # NULL

\* C20: for every platform, once the credential stored by a handshake (or by
\* an earlier refresh) is stale, the platform module's getValid call invokes
\* the platform's refresh function.
C20_AutoRefresh ==
    \A platform \in Platforms, resp \in TokenResponses :
        ( /\ platform \in DOMAIN tokens
          /\ ~C19_Fresh(getToken(tokens, platform)[1])
          /\ C20_ProviderGrantsRefresh(platform) )
        => getValidToken(tokens, platform, <<RefreshFnOf(platform)>>, resp, now).calls = 1

\* a callback request that carries a code and the state token q
C21_Request(q) == [code |-> <<"code">>, state |-> <<q>>, error |-> NULL]

\* C21: a state token is consumed at most once.  A token just issued is in
\* the session map; a callback with a token that is in the map passes
\* verifyState and takes it out; a callback with a token that is not in the
\* map is answered 400 and changes nothing; and a token that has left the map
\* never comes back, so every later callback with it fails.
C21_StateConsumedOnce ==
    /\ [](\A platform \in PathPlatforms, q \in 0..MaxStates :
            LET r == callbackStart(oauthStates, platform, C21_Request(q)) IN
              IF q \in DOMAIN oauthStates
              THEN /\ verifyState(oauthStates, q).data = <<oauthStates[q]>>
                   /\ r.status # 400
                   /\ q \notin DOMAIN r.oauthStates
              ELSE /\ verifyState(oauthStates, q).data = NULL
                   /\ r.status = 400
                   /\ r.oauthStates = oauthStates)
    /\ [][ /\ \A q \in 1..MaxStates :
                (q < nextState /\ q \notin DOMAIN oauthStates)
                => q \notin DOMAIN oauthStates'
           /\ nextState' # nextState => nextState \in DOMAIN oauthStates'
       ]_vars

\* a callback has consumed a token and awaits the token endpoint, while a
\* second token is still unused
C21_Witness ==
    \E q \in DOMAIN exchanges :
        /\ q \notin DOMAIN oauthStates
        /\ oauthStates # <<>>

\* C22: a session is issued with a timer due 10 minutes later, and a session
\* is in the map only while its timer is not yet due: from that time on the
\* token is unknown to verifyState, and the map holds no session older than
\* the TTL.
C22_SessionExpires ==
    /\ [](\A q \in DOMAIN oauthStates :
            /\ q \in DOMAIN timers
            /\ now < timers[q])
    /\ [](\A q \in 1..MaxStates :
            (q < nextState /\ (q \notin DOMAIN timers \/ timers[q] <= now))
            => verifyState(oauthStates, q).data = NULL)
    /\ [][nextState' # nextState =>
             /\ nextState \in DOMAIN timers'
             /\ timers'[nextState] = now + STATE_TTL_MS
       ]_vars

\* a session was issued, no callback came for it, and its time has run out
C22_Witness ==
    /\ nextState = 2
    /\ now >= STATE_TTL_MS
    /\ oauthStates = <<>>
    /\ timers = <<>>
    /\ exchanges = <<>>
    /\ tokens = <<>>

\* the token request of a YouTube callback carries the verifier stored for
\* its state token
C23_VerifierSent ==
    \A q \in DOMAIN oauthStates :
        oauthStates[q].platform = "youtube" =>
          LET r == callbackStart(oauthStates, "youtube", C21_Request(q)) IN
            /\ r.request # NULL
            /\ r.request[1].code_verifier = oauthStates[q].codeVerifier

\* C23: for YouTube the session of the state token holds a code verifier,
\* the code_challenge of the authorization URL is the S256 hash of that
\* stored verifier, and the callback's token request carries that stored
\* verifier.
C23_PkceBound ==
    /\ \A first \in Verifiers, second \in Verifiers :
          LET g == generateYouTubeAuthUrl(oauthStates, nextState, UserId,
                                          first, second)
              stored == g.oauthStates[nextState].codeVerifier
          IN /\ stored # NULL
             /\ g.url.code_challenge = <<S256(stored[1])>>
    /\ C23_VerifierSent

\* C24: the callback answers 400 when the provider reports an error, 400
\* when code or state is missing, 400 when the state token is not in the
\* session map (unknown, expired or consumed), 500 when the exchange fails and
\* 200 only when the exchange succeeded, and then the credential of the
\* platform is stored.
C24_CallbackStatus ==
    /\ [](\A platform \in PathPlatforms, req \in CallbackRequests :
            LET r == callbackStart(oauthStates, platform, req) IN
              IF req.error # NULL \/ req.code = NULL \/ req.state = NULL
              THEN r.status = 400 /\ r.request = NULL
              ELSE IF req.state[1] \notin DOMAIN oauthStates
              THEN r.status = 400 /\ r.request = NULL
              ELSE IF platform \notin Platforms
              THEN r.status = 500 /\ r.request = NULL
              ELSE r.status = 0 /\ r.request # NULL)
    /\ [][\A q \in 1..MaxStates, data \in AuthResponses :
            ExchangeReturns(q, data) =>
              LET f == callbackFinish(tokens, exchanges[q], data, now)
                  platform == exchanges[q].platform
              IN IF data.ok
                 THEN /\ f.status = 200
                      /\ platform \in DOMAIN tokens'
                      /\ tokens'[platform].access_token = data.access_token
                 ELSE /\ f.status = 500
                      /\ tokens' = tokens
       ]_vars

\* a callback has been answered 200: its credential is stored and no
\* exchange is pending
C24_Witness ==
    /\ tokens # <<>>
    /\ exchanges = <<>>
    /\ nextState > 1

\* C25: within one processJobs() call the jobs go to the executor in the
\* order of its ready set, one at a time.  A call starts with the first job
\* below the ceiling; its position changes only when the executor of its
\* current job returns, in the step that writes that job's completed or
\* failed status, and then moves to the next job below the ceiling; the call
\* ends only when no job below the ceiling is left.
C25_OneAtATimeInOrder ==
    [][\A p \in Slots :
          pass'[p] # pass[p] =>
            IF pass[p].pc = "idle"
            THEN pass'[p].pc = "exec" =>
                   \A j \in 1..(pass'[p].idx - 1) :
                       pass'[p].jobs[j].retryCount >= MAX_RETRIES
            ELSE /\ CurrentJob(p).id \in Ids =>
                        posts'[CurrentJob(p).id].status \in {"completed", "failed"}
                 /\ pass'[p].pc = "exec" =>
                        /\ pass'[p].jobs = pass[p].jobs
                        /\ pass'[p].idx > pass[p].idx
                 /\ LET last == IF pass'[p].pc = "exec" THEN pass'[p].idx - 1
                                 ELSE Len(pass[p].jobs)
                    IN \A j \in (pass[p].idx + 1)..last :
                           pass[p].jobs[j].retryCount >= MAX_RETRIES
      ]_vars

\* a call is running the executor of the second job of its ready set, the
\* first being written as completed
C25_Witness ==
    \E p \in Slots :
        /\ pass[p].pc = "exec"
        /\ pass[p].idx = 2
        /\ pass[p].jobs[1].id \in Ids
        /\ posts[pass[p].jobs[1].id].status = "completed"

\* C26: a job of a call's ready set whose retryCount has reached MAX_RETRIES
\* is marked failed with 'Max retries exceeded' in the step in which the loop
\* comes to it (its row, unless a cleanup has deleted it since the ready set
\* was read), and the loop goes on: the executor is never invoked for it.
C26_CeilingJobFailed ==
    [][\A p \in Slots :
          pass'[p] # pass[p] =>
            LET jobs == IF pass[p].pc = "idle" THEN pass'[p].jobs ELSE pass[p].jobs
                last == IF pass'[p].pc = "exec" THEN pass'[p].idx - 1 ELSE Len(jobs)
            IN /\ \A j \in (pass[p].idx + 1)..last :
                     jobs[j].retryCount >= MAX_RETRIES /\ jobs[j].id \in DOMAIN posts'
                     => /\ posts'[jobs[j].id].status = "failed"
                        /\ posts'[jobs[j].id].error_message = MsgMaxRetries
               /\ pass'[p].pc = "exec" =>
                     pass'[p].jobs[pass'[p].idx].retryCount < MAX_RETRIES
      ]_vars

\* a job has been failed by the retry check
C26_Witness ==
    \E id \in Ids : /\ posts[id].status = "failed"
                    /\ posts[id].error_message = MsgMaxRetries

\* C27: in every reachable state a job carries a result payload only if its
\* status is completed and an error message only if its status is failed.
C27_PayloadMatchesStatus ==
    \A id \in Ids :
        /\ posts[id].result_json # NULL => posts[id].status = "completed"
        /\ posts[id].error_message # NULL => posts[id].status = "failed"

\* C28: completeJob(id, result) on an existing job sets its status to
\* completed and stores the result, leaving everything else of the table as
\* it was; a second call with another result only overwrites the result
\* (status still completed, retry count as before); for an id with no row
\* the call changes nothing.
C28_CompleteIdempotent ==
    \A id \in 1..MaxJobs, r1 \in SkillResults, r2 \in SkillResults :
        LET P1 == completeJob(posts, id, r1)
            P2 == completeJob(P1, id, r2)
        IN IF id \in Ids
           THEN /\ P1 = [posts EXCEPT ![id].status = "completed",
                                      ![id].result_json = <<r1>>]
                /\ P1[id].retry_count = posts[id].retry_count
                /\ P2 = [P1 EXCEPT ![id].result_json = <<r2>>]
                /\ P2[id].status = "completed"
                /\ P2[id].retry_count = posts[id].retry_count
           ELSE P1 = posts /\ P2 = posts

\* a job that had failed before has been completed, and another id has no row
C28_Witness ==
    /\ \E id \in Ids : /\ posts[id].status = "completed"
                       /\ posts[id].result_json = <<SkillSuccess>>
                       /\ posts[id].retry_count > 0
    /\ \E id \in 1..MaxJobs : id \notin Ids

\* C29: when getValid calls refreshFn and refreshFn throws or returns null,
\* getValid returns absent, having called refreshFn once, and the stored
\* credential is exactly what it was.
C29_FailedRefresh ==
    \A platform \in Platforms, resp \in TokenResponses :
      \A refreshFn \in RefreshFns(platform) \ {NULL} :
        LET g == getValidToken(tokens, platform, refreshFn, resp, now)
            stored == getToken(tokens, platform)
        IN ( /\ g.calls > 0
             /\ \/ refreshFn[1] = RejectingFn
                \/ CallRefreshFn(refreshFn[1], stored[1], resp, now) = NULL )
           => /\ g.ret = NULL
              /\ g.calls = 1
              /\ g.tokens = tokens

\* a stale credential with a refresh token is stored: a refresh that meets
\* an error answer, and one that rejects, both fail after one call
C29_Witness ==
    \E platform \in DOMAIN tokens :
        /\ getValidToken(tokens, platform, <<RefreshFnOf(platform)>>,
                         TokenError, now).calls = 1
        /\ getValidToken(tokens, platform, <<RejectingFn>>,
                         TokenError, now).calls = 1
        /\ getValidToken(tokens, platform, <<RefreshFnOf(platform)>>,
                         TokenError, now).ret = NULL

\* C30: for every stored credential and every instant, needsRefresh is false
\* when the credential has no expiry, true when the expiry is less than the
\* five-minute buffer after now (an expiry in the past included) and false
\* when it is the buffer or more after now; isExpired is true exactly when
\* an expiry is set and is at or before now.
C30_RefreshWindow ==
    \A platform \in DOMAIN tokens :
        LET token == getToken(tokens, platform)[1] IN
          IF token.expiresAt = NULL
          THEN ~needsRefresh(token, now) /\ ~isExpired(token, now)
          ELSE /\ needsRefresh(token, now) <=>
                     token.expiresAt[1] < now + REFRESH_BUFFER_MS
               /\ isExpired(token, now) <=> token.expiresAt[1] <= now

\* an expiry of now + d is stored
C30_ExpiryIs(d) ==
    \E platform \in DOMAIN tokens :
        /\ tokens[platform].expires_at # NULL
        /\ getToken(tokens, platform)[1].expiresAt[1] = now + d

\* the edges side by side: a credential with no expiry, one that expires
\* exactly now and one that expires exactly the buffer after now
C30_Witness ==
    /\ now > 0
    /\ C30_ExpiryIs(0)
    /\ C30_ExpiryIs(REFRESH_BUFFER_MS)
    /\ \E platform \in DOMAIN tokens : tokens[platform].expires_at = NULL

\* C31: store(cred) leaves exactly one record for cred.platform, whose access
\* token, refresh token and expiry are those of cred (one absent in cred is
\* absent in the store whatever the record before held), and leaves the
\* records of the other platforms as they were.
C31_StoreReplaces ==
    \A platform \in Platforms, accessToken \in AccessTokens,
       refreshToken \in RefreshTokens, expiresIn \in ExpiresIn :
        LET cred == createTokenData(platform, accessToken, refreshToken,
                                    expiresIn, now)
            T == storeToken(tokens, cred)
        IN /\ DOMAIN T = DOMAIN tokens \cup {platform}
           /\ getToken(T, platform) = <<cred>>
           /\ \A p \in DOMAIN tokens \ {platform} : T[p] = tokens[p]

\* a record with a refresh token and an expiry is stored, which a store of a
\* credential without them has to replace, beside a record that has neither
C31_Witness ==
    /\ \E platform \in DOMAIN tokens :
          /\ tokens[platform].refresh_token # NULL
          /\ tokens[platform].expires_at # NULL
    /\ \E platform \in DOMAIN tokens :
          /\ tokens[platform].refresh_token = NULL
          /\ tokens[platform].expires_at = NULL

\* C32: a credential built from a provider response that carries expires_in
\* = n, for every n >= 0, has the expiry now + n; its expiry is absent only
\* when the response carries no expires_in.
C32_ExpiryFromExpiresIn ==
    \A platform \in Platforms, data \in TokenResponses :
        data.ok =>
          exchangeCode(platform, data, now).expiresAt =
            IF data.expires_in = NULL THEN NULL
            ELSE <<now + data.expires_in[1]>>

\* C33: an enqueue request that lacks platform or action is answered with an
\* error result and no job id, and the table of jobs is left as it was.
C33_MalformedRejected ==
    \A request \in MalformedRequests :
        LET r == caseAdd(posts, nextId, request, now) IN
          /\ ~r.result.success
          /\ r.result.error = MsgMissingFields
          /\ r.result.jobId = NULL
          /\ r.posts = posts

\* a job is in the table and the table would take another
C33_Witness == posts # <<>> /\ nextId <= MaxJobs

\* C34: no job is in the hands of the executor for two processJobs() calls
\* at once: while the executor runs for a job, no other call has selected
\* the same job and invoked the executor for it.
C34_JobExecutedOnce ==
    \A p \in Slots, q \in Slots :
        ( /\ p # q
          /\ pass[p].pc = "exec"
          /\ pass[q].pc = "exec" )
        => CurrentJob(p).id # CurrentJob(q).id

\* C35: a job that cancel() has marked failed with 'Cancelled by user' keeps
\* that record (status and message) until retry(id) is called or the row is
\* purged, and no processJobs() call invokes the executor for it, even a
\* call that had fetched the job before the cancel.
C35_CancelSticks ==
    [][\A i \in Ids :
          ( /\ posts[i].status = "failed"
            /\ posts[i].error_message = MsgCancelled )
          => /\ i \in DOMAIN posts' =>
                   \/ /\ posts'[i].status = "failed"
                      /\ posts'[i].error_message = MsgCancelled
                   \/ Retry(i, TRUE)
             /\ \A p \in Slots :
                   ( /\ pass'[p] # pass[p]
                     /\ pass'[p].pc = "exec" )
                   => pass'[p].jobs[pass'[p].idx].id # i
      ]_vars

\* C36: when getValid's refreshFn settles and the record of the platform is
\* no longer the one getValid read before the await (a handshake or another
\* refresh has stored a credential meanwhile), getValid does not write its
\* refreshed credential over it.
C36_NoLostUpdate ==
    [][\A platform \in DOMAIN refreshes :
          ( /\ platform \notin DOMAIN refreshes'
            /\ getToken(tokens, platform) # <<refreshes[platform]>> )
          => tokens' = tokens
      ]_vars

\* C37: a pending job whose retry count is at or above the 3 of the ready
\* query (it got there by retry()) is changed by nothing but cancel(): no
\* step of a dispatch tick or of a cleanup changes or deletes its row, and
\* no processJobs() call invokes the executor for it.
C37_StuckPending ==
    [][\A i \in Ids :
          ( /\ posts[i].status = "pending"
            /\ posts[i].retry_count >= READY_RETRY_LIMIT )
          => /\ i \in DOMAIN posts'
             /\ posts'[i] = posts[i] \/ Cancel(i, TRUE)
             /\ \A p \in Slots :
                   ( /\ pass'[p] # pass[p]
                     /\ pass'[p].pc = "exec" )
                   => pass'[p].jobs[pass'[p].idx].id # i
      ]_vars

\* C38: a callback starts a code exchange only for the platform its state
\* token was issued for: when a callback consumes the session of a token and
\* sends a token request, the request is for the session's platform.
C38_SamePlatform ==
    [][\A q \in DOMAIN oauthStates :
          ( /\ q \in DOMAIN exchanges'
            /\ q \notin DOMAIN exchanges
            /\ q \notin DOMAIN oauthStates' )
          => exchanges'[q].platform = oauthStates[q].platform
      ]_vars

\* C39: a callback answered 400 for a provider error or for a missing code
\* or state leaves the session map as it was, so that every open session
\* still passes the state check of a later callback that carries its token
\* and a code.
C39_RejectedKeepsSessions ==
    \A platform \in PathPlatforms, req \in CallbackRequests :
        (req.error # NULL \/ req.code = NULL \/ req.state = NULL) =>
          LET r == callbackStart(oauthStates, platform, req) IN
            /\ r.status = 400
            /\ r.oauthStates = oauthStates
            /\ \A q \in DOMAIN oauthStates :
                  callbackStart(r.oauthStates, oauthStates[q].platform,
                                C21_Request(q)).request # NULL

\* a session is open while another has been consumed by a callback
C39_Witness == oauthStates # <<>> /\ exchanges # <<>>

\* C40: when the code exchange fails, the tokens table is left as it was and
\* the session stays consumed, so that the same callback again is answered
\* 400; a callback on the path of an unknown platform consumes the session
\* and is answered 500 with no token request sent.
C40_FailedExchange ==
    /\ [](\A q \in DOMAIN oauthStates :
            LET r == callbackStart(oauthStates, "other", C21_Request(q)) IN
              /\ r.status = 500
              /\ r.request = NULL
              /\ q \notin DOMAIN r.oauthStates
              /\ callbackStart(r.oauthStates, "other", C21_Request(q)).status = 400)
    /\ [][\A q \in 1..MaxStates :
            ExchangeReturns(q, TokenError) =>
              /\ callbackFinish(tokens, exchanges[q], TokenError, now).status = 500
              /\ tokens' = tokens
              /\ q \notin DOMAIN oauthStates'
              /\ callbackStart(oauthStates', exchanges[q].platform,
                               C21_Request(q)).status = 400
       ]_vars

\* no timer has fired yet and a handshake has ended with its session
\* consumed and nothing stored
C40_Witness ==
    /\ now = 0
    /\ nextState > 1
    /\ oauthStates = <<>>
    /\ exchanges = <<>>
    /\ tokens = <<>>

====
